---- MODULE Spec2Model ----
(***************************************************************************)
(* A model of hyperapp-debug-trace: the dispatch middleware of             *)
(* intercept.js (generateMiddleware / interceptedDispatch / wrapAction /   *)
(* wrapEffect / getFunctionName) and the console hooks of src/trace.js     *)
(* (preAction / postAction / preEffect / postEffect /                      *)
(* parseActionReturnValue), run against Hyperapp's recursive dispatch.     *)
(*                                                                         *)
(* The second half of intercept.js (wrapDispatch and the wrappers with the *)
(* console calls built in) is an earlier variant of the same middleware;   *)
(* the model follows generateMiddleware, the one trace.js imports.         *)
(*                                                                         *)
(* JavaScript execution is synchronous, so the program is a stack machine: *)
(* `stack` is the call stack, each step runs the code of the top frame up  *)
(* to its next call or return, `ret` carries a return value to the caller  *)
(* and `exc` an exception that is unwinding the stack.  `log` and          *)
(* `console` record what happened and what was written since the           *)
(* application's latest call of dispatch; `dispatched` and `reported`      *)
(* record, over all calls, the states dispatched and what the state-change *)
(* handler was given.                                                      *)
(***************************************************************************)
EXTENDS Integers, Sequences, FiniteSets, TLC

VARIABLES cfg, stack, ret, exc, status, hostState, prevState,
          log, console, depth, calls, dispatched, reported

vars == <<cfg, stack, ret, exc, status, hostState, prevState,
          log, console, depth, calls, dispatched, reported>>

(***************************************************************************)
(* Bounds.                                                                 *)
(***************************************************************************)
\* number of calls the application makes to the intercepted dispatch
MaxCalls == 2
\* frames the engine's call stack holds before it raises a RangeError
MaxDepth == 14

(***************************************************************************)
(* JavaScript values.  Every value is a record tagged by its type.  A      *)
(* string is a sequence of symbols; the symbol " " is a space and every    *)
(* other symbol stands for a run of non-space characters.                  *)
(***************************************************************************)
Undef == [t |-> "undefined"]
Obj(i) == [t |-> "object", id |-> i]
Str(s) == [t |-> "string", s |-> s]
Arr(es) == [t |-> "array", elems |-> es]
Fn(id, name, marked) ==
  [t |-> "function", id |-> id, name |-> name, isWrapped |-> marked]

IsFunction(v) == v.t = "function"
IsArray(v) == v.t = "array"
Truthy(v) == v.t # "undefined"
Length(a) == Len(a.elems)
\* a[i] with JavaScript's 0-based index; undefined when out of range
At(a, i) == IF IsArray(a) /\ i < Length(a) THEN a.elems[i + 1] ELSE Undef
\* a.slice(1)
Slice1(a) == Arr(SubSeq(a.elems, 2, Length(a)))
\* a with a[i] = v
Put(a, i, v) == Arr([a.elems EXCEPT ![i + 1] = v])
\* v['$isWrapped'] is truthy
IsMarked(v) == IsFunction(v) /\ v.isWrapped

S1 == Obj(1)
S2 == Obj(2)
P1 == Obj(11)
P2 == Obj(12)

\* the intercepted dispatch function, as a value handed to effects
DispatchFn == Fn("interceptedDispatch", <<"interceptedDispatch">>, FALSE)

(***************************************************************************)
(* intercept.js: naming and wrapping.                                      *)
(***************************************************************************)
\* index of the first space of s, 0 when there is none
RECURSIVE FirstSpace(_, _)
FirstSpace(s, i) ==
  IF i > Len(s) THEN 0 ELSE IF s[i] = " " THEN i ELSE FirstSpace(s, i + 1)

\* String.prototype.split(' '): the tokens between the spaces of s
RECURSIVE Split(_)
Split(s) ==
  LET k == FirstSpace(s, 1)
  IN IF k = 0 THEN <<s>>
     ELSE <<SubSeq(s, 1, k - 1)>> \o Split(SubSeq(s, k + 1, Len(s)))

\* Array.prototype.slice(-1): the array of the last element
SliceLast(xs) == IF Len(xs) = 0 THEN <<>> ELSE <<xs[Len(xs)]>>

getFunctionName(fn) ==
  LET last == SliceLast(Split(fn.name))
  IN Arr([i \in 1..Len(last) |-> Str(last[i])])

\* the closure wrappedAction of wrapAction; it captures actionFn, pre, post
WrappedAction(actionFn, pre, post) ==
  [t |-> "function", id |-> "wrappedAction", name |-> <<"wrappedAction">>,
   isWrapped |-> TRUE, of |-> actionFn, pre |-> pre, post |-> post]

\* wrapAction without the test of the marker
wrapActionAgain(actionFn, pre, post) ==
  IF pre \/ post
  THEN WrappedAction(actionFn, pre, post)
  ELSE actionFn

\* wrapAction without the test of the hooks
wrapActionAlways(actionFn, pre, post) ==
  IF ~IsMarked(actionFn)
  THEN WrappedAction(actionFn, pre, post)
  ELSE actionFn

wrapAction(actionFn, pre, post) ==
  IF ~IsMarked(actionFn) /\ (pre \/ post)
  THEN WrappedAction(actionFn, pre, post)
  ELSE actionFn

\* the closure wrappedEffect of wrapEffect
WrappedEffect(effectFn, pre, post) ==
  [t |-> "function", id |-> "wrappedEffect", name |-> <<"wrappedEffect">>,
   isWrapped |-> TRUE, of |-> effectFn, pre |-> pre, post |-> post]

wrapEffect(effectFn, pre, post) ==
  IF ~IsMarked(effectFn) /\ (pre \/ post)
  THEN WrappedEffect(effectFn, pre, post)
  ELSE effectFn

IsWrapper(f) == IsFunction(f) /\ f.id \in {"wrappedAction", "wrappedEffect"}

\* The loop over the effect tuples of a [state, tuple...] array, from index
\* i on.  Reading tuple[0] of an undefined tuple and reading '$isWrapped' of
\* an undefined tuple[0] raise a TypeError.
RECURSIVE WrapTuples(_, _, _, _)
WrapTuples(a, i, pre, post) ==
  IF i >= Length(a) THEN [error |-> FALSE, action |-> a]
  ELSE LET tuple == At(a, i)
       IN IF tuple = Undef \/ At(tuple, 0) = Undef
          THEN [error |-> TRUE, action |-> a]
          ELSE WrapTuples(
                 Put(a, i, Put(tuple, 0, wrapEffect(At(tuple, 0), pre, post))),
                 i + 1, pre, post)

\* Classify with signature 2 forwarding the new state alone
ClassifyStateAlone(action, c) ==
  IF IsFunction(action)
  THEN [error |-> FALSE, newState |-> Undef,
        action |-> wrapAction(action, c.preAction, c.postAction)]
  ELSE IF IsArray(action)
  THEN IF IsFunction(At(action, 0))
       THEN [error |-> FALSE, newState |-> Undef,
             action |-> Put(action, 0,
                            wrapAction(At(action, 0), c.preAction, c.postAction))]
       ELSE LET w == WrapTuples(action, 1, c.preEffect, c.postEffect)
            IN [error |-> w.error, newState |-> At(action, 0),
                action |-> At(action, 0)]
  ELSE [error |-> FALSE, newState |-> action, action |-> action]

\* Classify with signature 3 forwarding the action as it is
ClassifyActionBare(action, c) ==
  IF IsFunction(action)
  THEN [error |-> FALSE, newState |-> Undef, action |-> action]
  ELSE IF IsArray(action)
  THEN IF IsFunction(At(action, 0))
       THEN [error |-> FALSE, newState |-> Undef,
             action |-> Put(action, 0,
                            wrapAction(At(action, 0), c.preAction, c.postAction))]
       ELSE LET w == WrapTuples(action, 1, c.preEffect, c.postEffect)
            IN [error |-> w.error, newState |-> At(action, 0),
                action |-> w.action]
  ELSE [error |-> FALSE, newState |-> action, action |-> action]

\* Classify with signature 4 replacing the pair by the wrapped action
ClassifyPairLost(action, c) ==
  IF IsFunction(action)
  THEN [error |-> FALSE, newState |-> Undef,
        action |-> wrapAction(action, c.preAction, c.postAction)]
  ELSE IF IsArray(action)
  THEN IF IsFunction(At(action, 0))
       THEN [error |-> FALSE, newState |-> Undef,
             action |-> wrapAction(At(action, 0), c.preAction, c.postAction)]
       ELSE LET w == WrapTuples(action, 1, c.preEffect, c.postEffect)
            IN [error |-> w.error, newState |-> At(action, 0),
                action |-> w.action]
  ELSE [error |-> FALSE, newState |-> action, action |-> action]

\* interceptedDispatch up to its call of dispatch: the target with its
\* functions wrapped, and newState
Classify(action, c) ==
  IF IsFunction(action)
  THEN [error |-> FALSE, newState |-> Undef,
        action |-> wrapAction(action, c.preAction, c.postAction)]
  ELSE IF IsArray(action)
  THEN IF IsFunction(At(action, 0))
       THEN [error |-> FALSE, newState |-> Undef,
             action |-> Put(action, 0,
                            wrapAction(At(action, 0), c.preAction, c.postAction))]
       ELSE LET w == WrapTuples(action, 1, c.preEffect, c.postEffect)
            IN [error |-> w.error, newState |-> At(action, 0),
                action |-> w.action]
  ELSE [error |-> FALSE, newState |-> action, action |-> action]

(***************************************************************************)
(* trace.js: the hooks and what they write to the console.                 *)
(***************************************************************************)
\* parseActionReturnValue without the slice
parseActionReturnValueWhole(rv) ==
  IF IsArray(rv)
  THEN IF IsFunction(At(rv, 0))
       THEN [has |-> {"action"}, state |-> Undef, action |-> rv,
             effects |-> Undef]
       ELSE [has |-> {"state", "effects"}, state |-> At(rv, 0),
             action |-> Undef, effects |-> rv]
  ELSE [has |-> {"state"}, state |-> rv, action |-> Undef, effects |-> Undef]

\* the keys of parsed are `has`; a key that was not set reads as undefined
parseActionReturnValue(rv) ==
  IF IsArray(rv)
  THEN IF IsFunction(At(rv, 0))
       THEN [has |-> {"action"}, state |-> Undef, action |-> rv,
             effects |-> Undef]
       ELSE [has |-> {"state", "effects"}, state |-> At(rv, 0),
             action |-> Undef, effects |-> Slice1(rv)]
  ELSE [has |-> {"state"}, state |-> rv, action |-> Undef, effects |-> Undef]

\* the symbols of String(v) for a string or an array of strings
RECURSIVE JoinSyms(_)
JoinSyms(es) ==
  IF Len(es) = 0 THEN <<>>
  ELSE IF Len(es) = 1 THEN es[1].s
  ELSE es[1].s \o <<",">> \o JoinSyms(Tail(es))

ToSyms(v) == IF IsArray(v) THEN JoinSyms(v.elems) ELSE v.s

Group(label) == [op |-> "group", args |-> <<label>>]
LogLine(args) == [op |-> "log", args |-> args]
GroupEnd == [op |-> "groupEnd", args |-> <<>>]

\* preAction without its console.groupEnd()
preActionOpen(name, state, props) ==
  << Group(Str(<<"Action:", " ">> \o ToSyms(name))),
     Group(Str(<<"Called", " ", "with:">>)),
     LogLine(<<Str(<<"State:">>), state>>),
     LogLine(<<Str(<<"Props:">>), props>>) >>

preAction(name, state, props) ==
  << Group(Str(<<"Action:", " ">> \o ToSyms(name))),
     Group(Str(<<"Called", " ", "with:">>)),
     LogLine(<<Str(<<"State:">>), state>>),
     LogLine(<<Str(<<"Props:">>), props>>),
     GroupEnd >>

\* the lines of the loop over returnedProps.effects; destructuring an
\* element that is not an array, or naming one that is not a function,
\* raises a TypeError
RECURSIVE EffectLines(_)
EffectLines(es) ==
  IF Len(es) = 0 THEN [error |-> FALSE, out |-> <<>>]
  ELSE IF ~IsArray(es[1]) \/ ~IsFunction(At(es[1], 0))
  THEN [error |-> TRUE, out |-> <<>>]
  ELSE LET rest == EffectLines(Tail(es))
           line == LogLine(<<Str(<<"Effect:", " ">>
                                 \o ToSyms(getFunctionName(At(es[1], 0)))),
                             At(es[1], 1)>>)
       IN [error |-> rest.error, out |-> <<line>> \o rest.out]

\* postAction without the console.groupEnd() that closes "Action: name"
postActionOneEnd(name, state, props, rv) ==
  LET returnedProps == parseActionReturnValue(rv)
      stateLine == IF returnedProps.state = state
                   THEN <<LogLine(<<Str(<<"State:", " ", "(unchanged)">>)>>)>>
                   ELSE IF returnedProps.state # Undef
                   THEN <<LogLine(<<Str(<<"State:">>), returnedProps.state>>)>>
                   ELSE <<>>
      actionLine == IF Truthy(returnedProps.action)
                    THEN <<LogLine(<<Str(<<"Action:">>), returnedProps.action>>)>>
                    ELSE <<>>
      fx == IF Truthy(returnedProps.effects)
            THEN EffectLines(returnedProps.effects.elems)
            ELSE [error |-> FALSE, out |-> <<>>]
      head == <<Group(Str(<<"Returned:">>))>> \o stateLine \o actionLine \o fx.out
  IN [error |-> fx.error, parsed |-> returnedProps,
      out |-> IF fx.error THEN head ELSE head \o <<GroupEnd>>]

postAction(name, state, props, rv) ==
  LET returnedProps == parseActionReturnValue(rv)
      stateLine == IF returnedProps.state = state
                   THEN <<LogLine(<<Str(<<"State:", " ", "(unchanged)">>)>>)>>
                   ELSE IF returnedProps.state # Undef
                   THEN <<LogLine(<<Str(<<"State:">>), returnedProps.state>>)>>
                   ELSE <<>>
      actionLine == IF Truthy(returnedProps.action)
                    THEN <<LogLine(<<Str(<<"Action:">>), returnedProps.action>>)>>
                    ELSE <<>>
      fx == IF Truthy(returnedProps.effects)
            THEN EffectLines(returnedProps.effects.elems)
            ELSE [error |-> FALSE, out |-> <<>>]
      head == <<Group(Str(<<"Returned:">>))>> \o stateLine \o actionLine \o fx.out
  IN [error |-> fx.error, parsed |-> returnedProps,
      out |-> IF fx.error THEN head ELSE head \o <<GroupEnd, GroupEnd>>]

preEffect(name, props) ==
  << Group(Str(<<"Effect:", " ">> \o ToSyms(name))),
     LogLine(<<Str(<<"Props:">>), props>>) >>

postEffect(name, props) == << GroupEnd >>

\* console nesting depth after the operations ops; groupEnd with no open
\* group does nothing
RECURSIVE DepthAfter(_, _)
DepthAfter(d, ops) ==
  IF Len(ops) = 0 THEN d
  ELSE DepthAfter(IF ops[1].op = "group" THEN d + 1
                  ELSE IF ops[1].op = "groupEnd" /\ d > 0 THEN d - 1
                  ELSE d,
                  Tail(ops))

\* trace.js generateStateChangeEffectBuilder: the effect tuple built for a
\* new state, and the ledger's next value
logStateChangeFx == Fn("logStateChangeFx", <<"logStateChangeFx">>, TRUE)

FromTo(from, to) == [t |-> "object", id |-> 0, from |-> from, to |-> to]

buildStateChangeEffect(prev, state) ==
  [rv |-> Arr(<<logStateChangeFx, FromTo(prev, state)>>), prevState |-> state]


(***************************************************************************)
(* The application: its actions and effects, and the configurations of    *)
(* generateMiddleware.                                                     *)
(***************************************************************************)
increment == Fn("increment", <<"increment">>, FALSE)
\* a bound function: its name is "bound keep"
keep == Fn("keep", <<"bound", " ", "keep">>, FALSE)
\* an anonymous function: its name is ""
forget == Fn("forget", <<>>, FALSE)
withFx == Fn("withFx", <<"withFx">>, FALSE)
withDispFx == Fn("withDispFx", <<"withDispFx">>, FALSE)
chain == Fn("chain", <<"chain">>, FALSE)
boom == Fn("boom", <<"boom">>, FALSE)
reset == Fn("reset", <<"reset">>, FALSE)
logFx == Fn("logFx", <<"logFx">>, FALSE)
dispFx == Fn("dispFx", <<"dispFx">>, FALSE)
\* an effect that throws, and one that dispatches the action that throws
boomFx == Fn("boomFx", <<"boomFx">>, FALSE)
dispBoomFx == Fn("dispBoomFx", <<"dispBoomFx">>, FALSE)
\* an effect the application has marked itself, to keep it out of the trace
silentFx == Fn("silentFx", <<"silentFx">>, TRUE)
\* state-change handlers: one returns the state it is given, one nothing
onChange == Fn("onChange", <<"onChange">>, FALSE)
onChangeQuiet == Fn("onChangeQuiet", <<"onChangeQuiet">>, FALSE)

\* the effects that call dispatch, and the action each dispatches
Dispatchers == {"dispFx", "dispBoomFx"}
DispatchedBy(f) == IF f.id = "dispFx" THEN increment ELSE boom

\* what a user function does when it is called with (a, b); the effects
\* that call dispatch are run by the machine below
UserResult(f, a, b) ==
  CASE f.id = "increment" -> [thrown |-> FALSE, rv |-> S2]
    [] f.id = "keep" -> [thrown |-> FALSE, rv |-> a]
    [] f.id = "forget" -> [thrown |-> FALSE, rv |-> Undef]
    [] f.id = "withFx" ->
         [thrown |-> FALSE, rv |-> Arr(<<S2, Arr(<<logFx, P1>>)>>)]
    [] f.id = "withDispFx" ->
         [thrown |-> FALSE, rv |-> Arr(<<a, Arr(<<dispFx, P2>>)>>)]
    [] f.id = "chain" -> [thrown |-> FALSE, rv |-> Arr(<<withFx, b>>)]
    [] f.id = "boom" -> [thrown |-> TRUE, rv |-> Undef]
    [] f.id = "boomFx" -> [thrown |-> TRUE, rv |-> Undef]
    [] f.id = "reset" -> [thrown |-> FALSE, rv |-> Arr(<<>>)]
    [] f.id = "onChange" -> [thrown |-> FALSE, rv |-> a]
    [] OTHER -> [thrown |-> FALSE, rv |-> Undef]

Config(pa, qa, pe, qe, h) ==
  [preAction |-> pa, postAction |-> qa, preEffect |-> pe, postEffect |-> qe,
   onStateChange |-> h]

\* trace.js passes its four hooks and a key generateMiddleware does not
\* read (buildStateChangeEffect), so onStateChange is undefined there
TraceConfig == Config(TRUE, TRUE, TRUE, TRUE, Undef)

Configs ==
  { TraceConfig,
    Config(FALSE, FALSE, FALSE, FALSE, Undef),
    Config(TRUE, FALSE, TRUE, FALSE, Undef),
    Config(FALSE, TRUE, FALSE, TRUE, Undef),
    Config(TRUE, TRUE, TRUE, TRUE, onChange),
    Config(TRUE, TRUE, TRUE, TRUE, onChangeQuiet),
    Config(TRUE, TRUE, TRUE, TRUE, Arr(<<onChangeQuiet, P1>>)) }

\* the calls the application makes: <<target, argument>>; a wrapper it
\* passes is one this middleware made earlier
Inputs(c) ==
  { <<S1, Undef>>, <<S2, Undef>>, <<Undef, Undef>>,
    <<increment, Undef>>, <<keep, P1>>, <<forget, P1>>, <<withFx, P1>>,
    <<withDispFx, P1>>, <<chain, P1>>, <<boom, P1>>, <<reset, Undef>>,
    <<wrapAction(increment, c.preAction, c.postAction), P1>>,
    <<Arr(<<increment, P1>>), Undef>>,
    <<Arr(<<keep, P1>>), P2>>,
    <<Arr(<<S1>>), Undef>>,
    <<Arr(<<S1, Arr(<<logFx, P1>>)>>), Undef>>,
    <<Arr(<<Undef, Arr(<<logFx, P1>>)>>), Undef>>,
    <<Arr(<<S2, Arr(<<logFx, P1>>), Arr(<<silentFx, P2>>)>>), P1>>,
    <<Arr(<<S1, Arr(<<wrapEffect(logFx, c.preEffect, c.postEffect), P1>>)>>),
      Undef>>,
    <<Arr(<<S1, Arr(<<boomFx, P1>>)>>), Undef>>,
    <<Arr(<<S1, Arr(<<dispBoomFx, P1>>)>>), Undef>>,
    \* an effect that is switched off, and a list of effect tuples
    <<Arr(<<S1, Undef>>), Undef>>,
    <<Arr(<<S1, Arr(<<Arr(<<logFx, P1>>), Arr(<<logFx, P2>>)>>)>>), Undef>> }

(***************************************************************************)
(* The call stack.                                                         *)
(***************************************************************************)
\* a frame: the function running (op), where it is (pc), and its locals
Frame(op, pc, fn, a, b) ==
  [op |-> op, pc |-> pc, fn |-> fn, a |-> a, b |-> b, x |-> Undef, i |-> 0]

\* a call interceptedDispatch(action, props); a keeps the two arguments as
\* they were passed
IFrame(action, props) ==
  Frame("interceptedDispatch", "enter", action,
        [action |-> action, props |-> props], props)

Top == stack[Len(stack)]
Running == stack # <<>> /\ exc = "none"
At_(op, pc) == Running /\ Top.op = op /\ Top.pc = pc

\* the top frame becomes cont and calls callee; a full stack raises
Call(cont, callee) ==
  IF Len(stack) >= MaxDepth
  THEN /\ exc' = "RangeError"
       /\ stack' = stack
  ELSE /\ exc' = exc
       /\ stack' = Append([stack EXCEPT ![Len(stack)] = cont], callee)

\* the top frame returns v to its caller
Return(v) ==
  /\ stack' = SubSeq(stack, 1, Len(stack) - 1)
  /\ ret' = v
  /\ status' = IF Len(stack) = 1 THEN "returned" ELSE status
  /\ exc' = exc

\* the top frame throws
Throw(e) ==
  /\ exc' = e
  /\ stack' = stack

Emit(ops) ==
  /\ console' = console \o ops
  /\ depth' = DepthAfter(depth, ops)

Init ==
  /\ cfg \in Configs
  /\ stack = <<>>
  /\ ret = Undef
  /\ exc = "none"
  /\ status = "idle"
  /\ hostState = S1
  /\ prevState = Undef
  /\ dispatched = <<>>
  /\ reported = <<>>
  /\ log = <<>>
  /\ console = <<>>
  /\ depth = 0
  /\ calls = 0


CanCall == Len(stack) < MaxDepth

\* the target produces a new state value: shape C or shape D
ProducesState(o) == ~IsFunction(o) /\ ~(IsArray(o) /\ IsFunction(At(o, 0)))
StateOf(o) == IF IsArray(o) THEN At(o, 0) ELSE o

\* the function that handles state changes
HandlerFn ==
  IF IsArray(cfg.onStateChange) THEN At(cfg.onStateChange, 0)
  ELSE cfg.onStateChange

(***************************************************************************)
(* The application calls the intercepted dispatch.                         *)
(***************************************************************************)
Dispatch(in) ==
  /\ stack = <<>>
  /\ calls < MaxCalls
  /\ stack' = <<IFrame(in[1], in[2])>>
  /\ exc' = "none"
  /\ status' = "running"
  /\ calls' = calls + 1
  /\ log' = <<[e |-> "call", action |-> in[1], props |-> in[2],
                depth |-> depth]>>
  /\ console' = <<>>
  /\ ret' = Undef
  /\ UNCHANGED <<cfg, hostState, prevState, dispatched, reported, depth>>

(***************************************************************************)
(* interceptedDispatch.  In its frame fn is `action`, a the target it was  *)
(* called with, b `props` and x `newState`.                                *)
(***************************************************************************)
\* classify and wrap, then call the original dispatch
InterceptForward ==
  /\ At_("interceptedDispatch", "enter")
  /\ LET c == Classify(Top.fn, cfg)
     IN IF c.error
        THEN /\ Throw("TypeError")
             /\ UNCHANGED <<log, dispatched>>
        ELSE /\ Call([Top EXCEPT !.pc = "forwarded", !.fn = c.action,
                                 !.x = c.newState],
                     Frame("dispatch", "enter", c.action, Undef, Top.b))
             /\ log' = IF CanCall
                       THEN Append(log, [e |-> "real", action |-> c.action,
                                         props |-> Top.b, orig |-> Top.a,
                                         followup |-> FALSE,
                                         level |-> Len(stack)])
                       ELSE log
             /\ dispatched' = IF CanCall /\ ProducesState(Top.a.action)
                              THEN Append(dispatched, StateOf(Top.a.action))
                              ELSE dispatched
  /\ UNCHANGED <<cfg, ret, status, hostState, prevState, reported, console,
                 depth, calls>>

\* the state changed: dispatch the state-change action
InterceptFollowUp ==
  /\ At_("interceptedDispatch", "forwarded")
  /\ Top.x # Undef /\ Truthy(cfg.onStateChange)
  /\ Call([Top EXCEPT !.pc = "done"],
          Frame("dispatch", "enter", cfg.onStateChange, Undef, Undef))
  /\ log' = IF CanCall
            THEN Append(log, [e |-> "real", action |-> cfg.onStateChange,
                              props |-> Undef, orig |-> Top.a,
                              followup |-> TRUE,
                              level |-> Len(stack)])
            ELSE log
  /\ UNCHANGED <<cfg, ret, status, hostState, prevState, dispatched, reported,
                 console, depth, calls>>

InterceptReturn ==
  /\ \/ At_("interceptedDispatch", "done")
     \/ /\ At_("interceptedDispatch", "forwarded")
        /\ ~(Top.x # Undef /\ Truthy(cfg.onStateChange))
  /\ Return(Undef)
  /\ UNCHANGED <<cfg, hostState, prevState, dispatched, reported, log, console,
                 depth, calls>>

(***************************************************************************)
(* Hyperapp's dispatch, the function the middleware is given.  In its      *)
(* frame fn is the target, b the argument, x the effects to run and i the  *)
(* index of the next one.                                                  *)
(***************************************************************************)
\* dispatch(action, props): run the action on the state
HostDispatchAction ==
  /\ At_("dispatch", "enter")
  /\ IsFunction(Top.fn)
  /\ Call([Top EXCEPT !.pc = "redispatch"],
          Frame("call", "enter", Top.fn, hostState, Top.b))
  /\ UNCHANGED <<cfg, ret, status, hostState, prevState, dispatched, reported,
                 log, console, depth, calls>>

\* ... and dispatch what it returned
HostRedispatch ==
  /\ At_("dispatch", "redispatch")
  /\ Call([Top EXCEPT !.pc = "done"],
          IFrame(ret, Undef))
  /\ UNCHANGED <<cfg, ret, status, hostState, prevState, dispatched, reported,
                 log, console, depth, calls>>

\* dispatch([action, props])
HostDispatchTuple ==
  /\ At_("dispatch", "enter")
  /\ IsArray(Top.fn)
  /\ IsFunction(At(Top.fn, 0)) \/ IsArray(At(Top.fn, 0))
  /\ Call([Top EXCEPT !.pc = "done"],
          IFrame(At(Top.fn, 0), At(Top.fn, 1)))
  /\ UNCHANGED <<cfg, ret, status, hostState, prevState, dispatched, reported,
                 log, console, depth, calls>>

\* Hyperapp's batch: the effect tuples of list, lists of tuples flattened.
\* A falsy item leaves a 0 in the result, written Undef here; an item that
\* is neither falsy nor an array has no reduce, which raises a TypeError.
RECURSIVE batch(_)
batch(list) ==
  IF Len(list) = 0 THEN [error |-> FALSE, out |-> <<>>]
  ELSE LET item == list[1]
           head == IF ~Truthy(item) THEN [error |-> FALSE, out |-> <<Undef>>]
                   ELSE IF IsFunction(At(item, 0))
                   THEN [error |-> FALSE, out |-> <<item>>]
                   ELSE IF IsArray(item) THEN batch(item.elems)
                   ELSE [error |-> TRUE, out |-> <<>>]
           rest == batch(Tail(list))
       IN [error |-> head.error \/ rest.error, out |-> head.out \o rest.out]

\* dispatch(state) and dispatch([state, effects...]): set the state; x is
\* the batch of the effects
HostSetState ==
  /\ At_("dispatch", "enter")
  /\ ~IsFunction(Top.fn)
  /\ ~(IsArray(Top.fn) /\ (IsFunction(At(Top.fn, 0)) \/ IsArray(At(Top.fn, 0))))
  /\ LET fx == IF IsArray(Top.fn) THEN batch(Slice1(Top.fn).elems)
               ELSE [error |-> FALSE, out |-> <<>>]
     IN IF fx.error
        THEN /\ Throw("TypeError")
             /\ UNCHANGED <<hostState, log>>
        ELSE /\ hostState' = IF IsArray(Top.fn) THEN At(Top.fn, 0) ELSE Top.fn
             /\ stack' = [stack EXCEPT ![Len(stack)] =
                            [Top EXCEPT !.pc = IF IsArray(Top.fn) THEN "fx"
                                               ELSE "done",
                                        !.x = Arr(fx.out), !.i = 0]]
             /\ log' = Append(log, [e |-> "setState", state |-> hostState'])
             /\ exc' = exc
  /\ UNCHANGED <<cfg, ret, status, prevState, dispatched, reported,
                 console, depth, calls>>

\* ... and run the next effect with the intercepted dispatch
HostEffect ==
  /\ At_("dispatch", "fx")
  /\ Top.i < Length(Top.x)
  /\ LET fx == At(Top.x, Top.i)
     IN IF Truthy(fx)
        THEN Call([Top EXCEPT !.i = Top.i + 1],
                  Frame("call", "enter", At(fx, 0), DispatchFn, At(fx, 1)))
        ELSE /\ stack' = [stack EXCEPT ![Len(stack)] =
                            [Top EXCEPT !.i = Top.i + 1]]
             /\ exc' = exc
  /\ UNCHANGED <<cfg, ret, status, hostState, prevState, dispatched, reported,
                 log, console, depth, calls>>

HostReturn ==
  /\ \/ At_("dispatch", "done")
     \/ At_("dispatch", "fx") /\ Top.i >= Length(Top.x)
  /\ Return(hostState)
  /\ UNCHANGED <<cfg, hostState, prevState, dispatched, reported, log, console,
                 depth, calls>>


(***************************************************************************)
(* Function calls.  In a call frame fn is the function and a, b its        *)
(* arguments.                                                              *)
(***************************************************************************)
\* the record of a hook call; depth is the console's nesting depth when the
\* hook is called
HookCall(hook, args) ==
  [e |-> "hook", hook |-> hook, args |-> args, depth |-> depth]

\* wrappedAction up to its call of actionFn
WrappedActionEnter ==
  /\ At_("call", "enter")
  /\ Top.fn.id = "wrappedAction"
  /\ LET f == Top.fn
         fname == getFunctionName(f.of)
     IN /\ IF f.pre
           THEN /\ log' = Append(log, HookCall("preAction",
                                               <<fname, Top.a, Top.b>>))
                /\ Emit(preAction(fname, Top.a, Top.b))
           ELSE UNCHANGED <<log, console, depth>>
        /\ Call([Top EXCEPT !.pc = "called"],
                Frame("call", "enter", f.of, Top.a, Top.b))
  /\ UNCHANGED <<cfg, ret, status, hostState, prevState, dispatched, reported,
                 calls>>

\* wrappedAction from the return of actionFn, without `return rv`
WrappedActionExitNoValue ==
  /\ At_("call", "called")
  /\ Top.fn.id = "wrappedAction"
  /\ LET f == Top.fn
         fname == getFunctionName(f.of)
         rv == ret
         p == postAction(fname, Top.a, Top.b, rv)
         called == IF f.post
                   THEN <<[e |-> "hook", hook |-> "postAction",
                           args |-> <<fname, Top.a, Top.b, rv>>,
                           depth |-> depth,
                           parsed |-> p.parsed, out |-> p.out]>>
                   ELSE <<>>
     IN /\ IF f.post THEN Emit(p.out) ELSE UNCHANGED <<console, depth>>
        /\ IF f.post /\ p.error
           THEN /\ Throw("TypeError")
                /\ log' = log \o called
                /\ UNCHANGED <<ret, status>>
           ELSE /\ Return(Undef)
                /\ log' = log \o called
                          \o <<[e |-> "return", fn |-> f,
                                 args |-> <<Top.a, Top.b>>, rv |-> Undef,
                                 depth |-> depth']>>
  /\ UNCHANGED <<cfg, hostState, prevState, dispatched, reported, calls>>

\* wrappedAction from the return of actionFn
WrappedActionExit ==
  /\ At_("call", "called")
  /\ Top.fn.id = "wrappedAction"
  /\ LET f == Top.fn
         fname == getFunctionName(f.of)
         rv == ret
         p == postAction(fname, Top.a, Top.b, rv)
         called == IF f.post
                   THEN <<[e |-> "hook", hook |-> "postAction",
                           args |-> <<fname, Top.a, Top.b, rv>>,
                           depth |-> depth,
                           parsed |-> p.parsed, out |-> p.out]>>
                   ELSE <<>>
     IN /\ IF f.post THEN Emit(p.out) ELSE UNCHANGED <<console, depth>>
        /\ IF f.post /\ p.error
           THEN /\ Throw("TypeError")
                /\ log' = log \o called
                /\ UNCHANGED <<ret, status>>
           ELSE /\ Return(rv)
                /\ log' = log \o called
                          \o <<[e |-> "return", fn |-> f,
                                 args |-> <<Top.a, Top.b>>, rv |-> rv,
                                 depth |-> depth']>>
  /\ UNCHANGED <<cfg, hostState, prevState, dispatched, reported, calls>>

\* wrappedEffect up to its call of effectFn; getFunctionName reads
\* effectFn.name.split, which raises a TypeError when effectFn is an array
WrappedEffectEnter ==
  /\ At_("call", "enter")
  /\ Top.fn.id = "wrappedEffect"
  /\ LET f == Top.fn
         fname == getFunctionName(f.of)
     IN IF ~IsFunction(f.of)
        THEN /\ Throw("TypeError")
             /\ UNCHANGED <<log, console, depth>>
        ELSE /\ IF f.pre
                THEN /\ log' = Append(log, HookCall("preEffect",
                                                    <<fname, Top.b>>))
                     /\ Emit(preEffect(fname, Top.b))
                ELSE UNCHANGED <<log, console, depth>>
             /\ Call([Top EXCEPT !.pc = "called"],
                     Frame("call", "enter", f.of, Top.a, Top.b))
  /\ UNCHANGED <<cfg, ret, status, hostState, prevState, dispatched, reported,
                 calls>>

\* wrappedEffect from the return of effectFn: `return rv` reads a variable
\* that is declared nowhere, which raises a ReferenceError
WrappedEffectExit ==
  /\ At_("call", "called")
  /\ Top.fn.id = "wrappedEffect"
  /\ LET f == Top.fn
         fname == getFunctionName(f.of)
     IN /\ IF f.post
           THEN /\ log' = Append(log, HookCall("postEffect", <<fname, Top.b>>))
                /\ Emit(postEffect(fname, Top.b))
           ELSE UNCHANGED <<log, console, depth>>
        /\ Throw("ReferenceError")
  /\ UNCHANGED <<cfg, ret, status, hostState, prevState, dispatched, reported,
                 calls>>

\* a function of the application runs and returns or throws
RunUser ==
  /\ At_("call", "enter")
  /\ ~IsWrapper(Top.fn)
  /\ Top.fn.id \notin Dispatchers
  /\ LET r == UserResult(Top.fn, Top.a, Top.b)
     IN /\ log' = Append(log, [e |-> "run", fn |-> Top.fn,
                               args |-> <<Top.a, Top.b>>, rv |-> r.rv,
                               thrown |-> r.thrown, depth |-> depth])
        /\ reported' = IF Top.fn = HandlerFn
                       THEN Append(reported, Top.b)
                       ELSE reported
        /\ IF r.thrown
           THEN Throw("Error") /\ UNCHANGED <<ret, status>>
           ELSE Return(r.rv)
  /\ UNCHANGED <<cfg, hostState, prevState, dispatched, console, depth, calls>>

\* an effect that calls dispatch(action, props)
RunDispFx ==
  /\ At_("call", "enter")
  /\ Top.fn.id \in Dispatchers
  /\ log' = Append(log, [e |-> "run", fn |-> Top.fn,
                         args |-> <<Top.a, Top.b>>, rv |-> Undef,
                         thrown |-> FALSE, depth |-> depth])
  /\ Call([Top EXCEPT !.pc = "done"],
          IFrame(DispatchedBy(Top.fn), Top.b))
  /\ UNCHANGED <<cfg, ret, status, hostState, prevState, dispatched, reported,
                 console, depth, calls>>

UserReturn ==
  /\ At_("call", "done")
  /\ Return(Undef)
  /\ UNCHANGED <<cfg, hostState, prevState, dispatched, reported, log, console,
                 depth, calls>>

\* Unwind with the wrappers catching what the function they wrap throws
UnwindCaught ==
  /\ exc # "none"
  /\ stack # <<>>
  /\ stack' = SubSeq(stack, 1, Len(stack) - 1)
  /\ exc' = IF Top.op = "call" /\ IsWrapper(Top.fn) THEN "none" ELSE exc
  /\ status' = IF Len(stack) > 1 THEN status
               ELSE IF exc' = "none" THEN "returned" ELSE "threw"
  /\ UNCHANGED <<cfg, ret, hostState, prevState, dispatched, reported,
                 log, console, depth, calls>>

\* nothing catches: an exception pops every frame
Unwind ==
  /\ exc # "none"
  /\ stack # <<>>
  /\ stack' = SubSeq(stack, 1, Len(stack) - 1)
  /\ status' = IF Len(stack) = 1 THEN "threw" ELSE status
  /\ UNCHANGED <<cfg, ret, exc, hostState, prevState, dispatched, reported,
                 log, console, depth, calls>>

Next ==
  \/ \E in \in Inputs(cfg) : Dispatch(in)
  \/ InterceptForward
  \/ InterceptFollowUp
  \/ InterceptReturn
  \/ HostDispatchAction
  \/ HostRedispatch
  \/ HostDispatchTuple
  \/ HostSetState
  \/ HostEffect
  \/ HostReturn
  \/ WrappedActionEnter
  \/ WrappedActionExit
  \/ WrappedEffectEnter
  \/ WrappedEffectExit
  \/ RunUser
  \/ RunDispFx
  \/ UserReturn
  \/ Unwind

Spec == Init /\ [][Next]_vars

TypeOK ==
  /\ status \in {"idle", "running", "returned", "threw"}
  /\ exc \in {"none", "TypeError", "ReferenceError", "RangeError", "Error"}
  /\ Len(stack) <= MaxDepth
  /\ depth >= 0
  /\ calls \in 0..MaxCalls


(***************************************************************************)
(* Properties.                                                             *)
(***************************************************************************)
Events(kind) == {i \in 1..Len(log) : log[i].e = kind}
Forwards == {i \in Events("real") : ~log[i].followup}
FollowUps == {i \in Events("real") : log[i].followup}
HookCalls(hook) == {i \in Events("hook") : log[i].hook = hook}

\* new is old, or the wrapper of old where a hook is configured and old
\* does not carry the marker
WrappedOrSame(old, new, kind, hooked) ==
  IF IsFunction(old) /\ ~IsMarked(old) /\ hooked
  THEN IsFunction(new) /\ new.id = kind /\ new.isWrapped /\ new.of = old
  ELSE new = old

SameTuple(old, new, c) ==
  /\ IsArray(new)
  /\ Length(new) = Length(old)
  /\ WrappedOrSame(At(old, 0), At(new, 0), "wrappedEffect",
                   c.preEffect \/ c.postEffect)
  /\ \A j \in 1..(Length(old) - 1) : At(new, j) = At(old, j)

\* new has the shape and the members of old, functions wrapped
SameTarget(old, new, c) ==
  IF IsFunction(old)
  THEN WrappedOrSame(old, new, "wrappedAction", c.preAction \/ c.postAction)
  ELSE IF IsArray(old)
  THEN /\ IsArray(new)
       /\ Length(new) = Length(old)
       /\ IF IsFunction(At(old, 0))
          THEN /\ WrappedOrSame(At(old, 0), At(new, 0), "wrappedAction",
                                c.preAction \/ c.postAction)
               /\ \A j \in 1..(Length(old) - 1) : At(new, j) = At(old, j)
          ELSE /\ At(new, 0) = At(old, 0)
               /\ \A j \in 1..(Length(old) - 1) :
                    SameTuple(At(old, j), At(new, j), c)
  ELSE new = old

\* the target has one of the four shapes: a state, [state, effect tuple...],
\* an action, [action, argument]
IsEffectTuple(v) == IsArray(v) /\ IsFunction(At(v, 0))
FourShapes(o) ==
  \/ ~IsArray(o)
  \/ IsFunction(At(o, 0))
  \/ \A j \in 1..(Length(o) - 1) : IsEffectTuple(At(o, j))

\* C1: a call interceptedDispatch(target, argument) that goes on makes, as
\* its first call, a call of the real dispatch whose argument is the
\* original argument and whose target has the shape and the members of the
\* original target, with action and effect functions replaced by their
\* wrappers.
C1_ForwardsSameCall ==
  [][ (/\ At_("interceptedDispatch", "enter")
       /\ FourShapes(Top.a.action)
       /\ exc' = "none") =>
        LET n == Len(stack)
        IN /\ Len(stack') = n + 1
           /\ stack'[n + 1].op = "dispatch"
           /\ stack'[n + 1].pc = "enter"
           /\ stack'[n + 1].b = stack[n].a.props
           /\ SameTarget(stack[n].a.action, stack'[n + 1].fn, cfg) ]_vars

\* in one call an action, an [action, argument] pair and a [state, effect
\* tuple] array have been forwarded with their function wrapped, one of them
\* with an argument
C1_Witness ==
  /\ \E i \in Forwards :
       /\ IsFunction(log[i].orig.action)
       /\ log[i].action # log[i].orig.action
       /\ log[i].props = P1
  /\ \E i \in Forwards :
       /\ IsArray(log[i].orig.action)
       /\ IsFunction(At(log[i].orig.action, 0))
       /\ log[i].action # log[i].orig.action
  /\ \E i \in Forwards :
       /\ IsArray(log[i].orig.action)
       /\ ~IsFunction(At(log[i].orig.action, 0))
       /\ log[i].action # log[i].orig.action

LastOf(S) == CHOOSE i \in S : \A j \in S : j <= i

IsHook(i, hook) == log[i].e = "hook" /\ log[i].hook = hook

\* C2: invoking a wrapped action with (state, props) calls, in this order,
\* the pre-hook with (name, state, props), the original action with (state,
\* props) and the post-hook with (name, state, props, rv), rv being what the
\* action returned; the wrapper then returns rv to its caller.
C2_WrappedActionOrder ==
  /\ \A i \in Events("return") :
       LET r == log[i]
           name == getFunctionName(r.fn.of)
       IN (r.fn.pre /\ r.fn.post) =>
            /\ i > 3
            /\ IsHook(i - 3, "preAction")
            /\ log[i - 3].args = <<name, r.args[1], r.args[2]>>
            /\ log[i - 2].e = "run"
            /\ log[i - 2].fn = r.fn.of
            /\ log[i - 2].args = r.args
            /\ IsHook(i - 1, "postAction")
            /\ log[i - 1].args = <<name, r.args[1], r.args[2], log[i - 2].rv>>
            /\ r.rv = log[i - 2].rv
  /\ (/\ At_("dispatch", "redispatch")
      /\ Len(log) > 0
      /\ log[Len(log)].e = "return") => ret = log[LastOf(Events("run"))].rv

\* increment, called through its wrapper with ({count: 1}, undefined), has
\* returned {count: 2}
C2_Witness ==
  /\ At_("dispatch", "redispatch")
  /\ Len(log) > 2
  /\ log[Len(log)].e = "return"
  /\ log[Len(log)].fn = WrappedAction(increment, TRUE, TRUE)
  /\ log[Len(log)].args = <<S1, Undef>>
  /\ ret = S2

\* C3 (as claimed): invoking a wrapped effect calls the pre-hook, then the
\* effect; after the effect has returned it calls the post-hook and returns
\* to its caller without raising an error of its own.
C3_WrappedEffectReturns ==
  [][ /\ (At_("call", "enter") /\ Top.fn.id = "wrappedEffect" /\ Top.fn.pre
          /\ IsFunction(Top.fn.of) /\ CanCall) =>
            /\ log' = Append(log, HookCall("preEffect",
                                  <<getFunctionName(Top.fn.of), Top.b>>))
            /\ stack'[Len(stack')].fn = Top.fn.of
      /\ (At_("call", "called") /\ Top.fn.id = "wrappedEffect") =>
            /\ Top.fn.post =>
                 log' = Append(log, HookCall("postEffect",
                                    <<getFunctionName(Top.fn.of), Top.b>>))
            /\ exc' = "none"
            /\ Len(stack') = Len(stack) - 1 ]_vars

\* C4: wrapping is idempotent: a function that carries the marker is
\* forwarded as it is, no wrapper is ever built around a marked function,
\* and no invocation makes two calls in a row of the same hook.
C4_WrappingIdempotent ==
  /\ \A k \in 1..Len(stack) :
       (stack[k].op = "call" /\ IsWrapper(stack[k].fn)) =>
          ~IsMarked(stack[k].fn.of)
  /\ \A i \in Forwards :
       LET o == log[i].orig.action
           n == log[i].action
       IN /\ IsMarked(o) => n = o
          /\ (IsArray(o) /\ IsMarked(At(o, 0))) => n = o
          /\ (IsArray(o) /\ ~IsFunction(At(o, 0))) =>
               \A j \in 1..(Length(o) - 1) :
                  IsMarked(At(At(o, j), 0)) => At(n, j) = At(o, j)
  /\ \A i \in 1..(Len(log) - 1) :
       ~(log[i].e = "hook" /\ log[i + 1].e = "hook"
         /\ log[i].hook = log[i + 1].hook)

\* an action that was wrapped before has been dispatched again, forwarded
\* as it was, and has run with one pre-hook and one post-hook call
C4_Witness ==
  \E i \in Forwards :
    /\ IsWrapper(log[i].orig.action)
    /\ log[i].action = log[i].orig.action
    /\ \E j \in Events("return") :
         /\ j = i + 4
         /\ log[j].fn = log[i].orig.action
         /\ IsHook(j - 3, "preAction")
         /\ log[j - 2].e = "run"
         /\ IsHook(j - 1, "postAction")

\* C5: with no pre-hook and no post-hook wrapAction and wrapEffect return
\* the function they were given, so the call forwarded to the real dispatch
\* is the original call and no wrapper ever runs.
C5_NoHooksIdentity ==
  /\ \A i \in Forwards :
       LET o == log[i].orig.action
           n == log[i].action
           isAction == IsFunction(o) \/ (IsArray(o) /\ IsFunction(At(o, 0)))
       IN /\ (~cfg.preAction /\ ~cfg.postAction /\ isAction) =>
               (n = o /\ log[i].props = log[i].orig.props)
          /\ (~cfg.preEffect /\ ~cfg.postEffect /\ ~isAction) =>
               (n = o /\ log[i].props = log[i].orig.props)
  /\ (~cfg.preAction /\ ~cfg.postAction) =>
       \A k \in 1..Len(stack) :
          ~(stack[k].op = "call" /\ stack[k].fn.id = "wrappedAction")
  /\ (~cfg.preEffect /\ ~cfg.postEffect) =>
       \A k \in 1..Len(stack) :
          ~(stack[k].op = "call" /\ stack[k].fn.id = "wrappedEffect")

\* without hooks an action and an effect have been forwarded and have run
C5_Witness ==
  /\ ~cfg.preAction /\ ~cfg.postAction /\ ~cfg.preEffect /\ ~cfg.postEffect
  /\ \E i \in Forwards : \E j \in Events("run") :
       IsFunction(log[i].orig.action) /\ log[j].fn = log[i].orig.action
  /\ \E i \in Forwards : \E j \in Events("run") :
       /\ IsArray(log[i].orig.action)
       /\ Length(log[i].orig.action) > 1
       /\ log[j].fn = At(At(log[i].orig.action, 1), 0)


\* the reports the ledger of trace.js builds for the states ss
RECURSIVE ExpectedReports(_, _)
ExpectedReports(prev, ss) ==
  IF Len(ss) = 0 THEN <<>>
  ELSE LET b == buildStateChangeEffect(prev, Head(ss))
       IN <<At(b.rv, 1)>> \o ExpectedReports(b.prevState, Tail(ss))

\* C6 (as claimed): with a state-change handler configured, the report of
\* the n-th state-producing dispatch call carries from = the state of the
\* (n-1)-th such call (undefined for the first) and to = the state of the
\* n-th.
C6_ReportsFromTo ==
  (stack = <<>> /\ (Truthy(cfg.onStateChange) \/ cfg = TraceConfig)) =>
     reported = ExpectedReports(Undef, dispatched)

\* C7 (as claimed): with onStateChange configured, interceptedDispatch
\* dispatches the state-change handler after forwarding the original call,
\* once for every call of shape C or D and never for a call of shape A or B.
C7_FollowUpPerStateCall ==
  /\ [](\A i \in FollowUps : \E j \in Forwards :
          j < i /\ log[j].level = log[i].level /\ log[j].orig = log[i].orig)
  /\ [][ (At_("interceptedDispatch", "forwarded")
          /\ Truthy(cfg.onStateChange) /\ CanCall) =>
            LET n == Len(stack)
            IN IF ProducesState(Top.a.action)
               THEN /\ Len(stack') = n + 1
                    /\ stack'[n].pc = "done"
                    /\ stack'[n + 1] = Frame("dispatch", "enter",
                                             cfg.onStateChange, Undef, Undef)
               ELSE Len(stack') = n - 1 ]_vars

\* C8 (as claimed): the state-change handler is never traced: no wrapper is
\* built around it and no hook is called for it.
C8_HandlerNeverTraced ==
  Truthy(cfg.onStateChange) =>
    /\ \A k \in 1..Len(stack) :
         ~(stack[k].op = "call" /\ IsWrapper(stack[k].fn)
           /\ stack[k].fn.of = HandlerFn)
    /\ \A i \in Events("run") :
         (log[i].fn = HandlerFn /\ i > 1) => log[i - 1].e # "hook"

\* C9: parseActionReturnValue(v) has only state = v when v is not an array,
\* only action = v when v is an array that starts with a function, and
\* state = v[0] with effects = v.slice(1) for any other array; the wrapper
\* returns v as it was.
C9_ParseShapes ==
  \A i \in HookCalls("postAction") :
    LET v == log[i].args[4]
        p == log[i].parsed
        n == IF v.t = "array" THEN Len(v.elems) ELSE 0
    IN /\ v.t # "array" => (p.has = {"state"} /\ p.state = v)
       /\ (v.t = "array" /\ n > 0 /\ v.elems[1].t = "function") =>
            (p.has = {"action"} /\ p.action = v)
       /\ (v.t = "array" /\ n > 0 /\ v.elems[1].t # "function") =>
            /\ p.has = {"state", "effects"}
            /\ p.state = v.elems[1]
            /\ p.effects = [t |-> "array", elems |-> Tail(v.elems)]
       /\ (v.t = "array" /\ n = 0) =>
            /\ p.has = {"state", "effects"}
            /\ p.state = Undef
            /\ p.effects = [t |-> "array", elems |-> <<>>]
       /\ (i < Len(log) /\ log[i + 1].e = "return") => log[i + 1].rv = v

\* in one call an [action, argument] pair and a [state, effect tuple] array
\* have been parsed
C9_Witness ==
  /\ \E i \in HookCalls("postAction") :
       log[i].args[4] = Arr(<<withFx, P1>>)
  /\ \E i \in HookCalls("postAction") :
       log[i].args[4] = Arr(<<S2, Arr(<<logFx, P1>>)>>)

HasLine(out, line) == \E k \in 1..Len(out) : out[k] = line

\* C10 (as claimed): when the result of an action carries a next state,
\* the post-action record says "unchanged" and leaves the value out if that
\* state is the state the action was invoked with, and writes the value if
\* it differs.
C10_StateLine ==
  \A i \in HookCalls("postAction") :
    LET state == log[i].args[2]
        p == log[i].parsed
        unchanged == LogLine(<<Str(<<"State:", " ", "(unchanged)">>)>>)
        value == LogLine(<<Str(<<"State:">>), p.state>>)
    IN "state" \in p.has =>
         IF p.state = state
         THEN HasLine(log[i].out, unchanged) /\ ~HasLine(log[i].out, value)
         ELSE HasLine(log[i].out, value) /\ ~HasLine(log[i].out, unchanged)

\* C11 (as claimed): a call of interceptedDispatch with an array that is
\* empty, or that has after its first element one that is not an [effect,
\* argument] tuple, raises nothing; it calls the real dispatch with the
\* array, those elements as they were.
C11_MalformedPassesThrough ==
  [][ LET n == Len(stack)
          old == stack[n].a.action
      IN (/\ At_("interceptedDispatch", "enter")
          /\ CanCall
          /\ IsArray(old)
          /\ ~IsFunction(At(old, 0))
          /\ \/ Length(old) = 0
             \/ \E j \in 1..(Length(old) - 1) : ~IsEffectTuple(At(old, j))) =>
           /\ exc' = "none"
           /\ Len(stack') = n + 1
           /\ stack'[n + 1].op = "dispatch"
           /\ Length(stack'[n + 1].fn) = Length(old)
           /\ \A j \in 1..(Length(old) - 1) :
                ~IsEffectTuple(At(old, j)) =>
                  At(stack'[n + 1].fn, j) = At(old, j) ]_vars

\* C12: an exception thrown by the original action or effect reaches its
\* wrapper and leaves it as it is: the step of the wrapper hands the same
\* exception to the wrapper's caller, calls no post-hook and writes nothing.
C12_ThrowPropagates ==
  [][ (/\ exc = "Error"
       /\ stack # <<>>
       /\ Top.op = "call"
       /\ IsWrapper(Top.fn)) =>
        /\ exc' = "Error"
        /\ stack' = SubSeq(stack, 1, Len(stack) - 1)
        /\ log' = log
        /\ console' = console
        /\ depth' = depth
        /\ ret' = ret ]_vars

\* boom, dispatched by a traced effect, has thrown; the exception has left
\* the wrapper of boom and the wrapper of the effect and is with Hyperapp's
\* dispatch, and no post-hook was called although both are configured
C12_Witness ==
  /\ exc = "Error"
  /\ stack # <<>>
  /\ Top.op = "dispatch"
  /\ Top.pc = "fx"
  /\ cfg.postAction
  /\ cfg.postEffect
  /\ Len(log) > 2
  /\ log[Len(log)].e = "run"
  /\ log[Len(log)].fn = boom
  /\ log[Len(log)].thrown
  /\ IsHook(Len(log) - 1, "preAction")
  /\ HookCalls("preEffect") # {}
  /\ HookCalls("postAction") = {}
  /\ HookCalls("postEffect") = {}

\* the actions the application dispatches
UserActions ==
  {increment, keep, forget, withFx, withDispFx, chain, boom, reset}

\* C13: every run of an action of the application is logged once: the
\* pre-action hook is called once, with the name and the arguments of the
\* run, right before it, and the post-action hook once, with these and the
\* value returned, right after it, however often the action or its wrapper
\* went through interceptedDispatch.  A run that throws has no post-hook.
C13_EachRunLoggedOnce ==
  \A i \in Events("run") :
    LET r == log[i]
        name == getFunctionName(r.fn)
    IN r.fn \in UserActions =>
         /\ cfg.preAction =>
              /\ i > 1
              /\ IsHook(i - 1, "preAction")
              /\ log[i - 1].args = <<name, r.args[1], r.args[2]>>
              /\ ~IsHook(i - 2, "preAction")
         /\ (cfg.postAction /\ ~r.thrown) =>
              /\ status \in {"returned", "threw"} => i < Len(log)
              /\ i < Len(log) =>
                   /\ IsHook(i + 1, "postAction")
                   /\ log[i + 1].args = <<name, r.args[1], r.args[2], r.rv>>
                   /\ (i + 1 < Len(log)) => ~IsHook(i + 2, "postAction")
         /\ (cfg.postAction /\ r.thrown) => i = Len(log)

\* interceptedDispatch([keep, props]) has returned: keep's wrapper went
\* through interceptedDispatch twice, inside the pair and alone, and keep
\* ran once between one pre-hook and one post-hook
C13_Witness ==
  /\ status = "returned"
  /\ cfg.preAction
  /\ cfg.postAction
  /\ \E i, j \in Forwards :
       /\ i < j
       /\ At(log[i].action, 0) = WrappedAction(keep, TRUE, TRUE)
       /\ log[j].orig.action = WrappedAction(keep, TRUE, TRUE)
       /\ log[j].action = log[j].orig.action
  /\ Cardinality({i \in Events("run") : log[i].fn = keep}) = 1
  /\ Cardinality(HookCalls("preAction")) = 1
  /\ Cardinality(HookCalls("postAction")) = 1

\* the step of a wrapper from its entry to its call of the traced function,
\* with a pre-hook configured
PreHookStep ==
  /\ At_("call", "enter")
  /\ IsWrapper(Top.fn)
  /\ IsFunction(Top.fn.of)
  /\ Top.fn.pre
  /\ CanCall

\* the step of a wrapper from the return of the traced function on, with
\* both hooks configured
PostHookStep ==
  /\ At_("call", "called")
  /\ IsWrapper(Top.fn)
  /\ Top.fn.pre
  /\ Top.fn.post

\* what the post-hook of the wrapper on top writes
PostOutput ==
  IF Top.fn.id = "wrappedAction"
  THEN postAction(getFunctionName(Top.fn.of), Top.a, Top.b, ret).out
  ELSE postEffect(getFunctionName(Top.fn.of), Top.b)

\* the post-hook writes after the traced function has returned and before
\* control leaves the wrapper, which calls nothing else
PostHookLast ==
  PostHookStep =>
    /\ console' = console \o PostOutput
    /\ PostOutput # <<>>
    /\ \/ stack' = SubSeq(stack, 1, Len(stack) - 1) /\ exc' = "none"
       \/ stack' = stack /\ exc' # "none"

\* C14 (as claimed): every group a pre-hook opens is closed before the
\* traced action or effect starts, and the post-hook writes after the traced
\* function has returned and before the wrapper returns.
C14_PreHookClosesGroups ==
  [][ /\ PreHookStep => depth' = depth
      /\ PostHookLast ]_vars

\* C14 (amended): of the groups a pre-hook opens, "Called with:" is closed
\* before the traced function starts and the outer one, "Action: name" or
\* "Effect: name", stays open while it runs and is closed by the post-hook,
\* which writes after the traced function has returned and before control
\* leaves the wrapper.
C14_OuterGroupSpansCall ==
  [][ /\ PreHookStep =>
           /\ depth' = depth + 1
           /\ Len(console') > Len(console)
           /\ console'[Len(console) + 1].op = "group"
           /\ Top.fn.id = "wrappedAction" =>
                /\ console'[Len(console) + 2] =
                     Group(Str(<<"Called", " ", "with:">>))
                /\ console'[Len(console')] = GroupEnd
      /\ PostHookLast
      /\ PostHookStep =>
           /\ depth' = depth - 1
           /\ console'[Len(console')] = GroupEnd ]_vars

\* withFx and the effect it returned have run in one call, each one level
\* deeper than where its pre-hook was called, and withFx's wrapper has
\* returned at the depth of its pre-hook
C14_Witness ==
  /\ \E i \in Events("return") :
       /\ i > 3
       /\ log[i].fn.of = withFx
       /\ IsHook(i - 3, "preAction")
       /\ log[i - 2].depth = log[i - 3].depth + 1
       /\ IsHook(i - 1, "postAction")
       /\ log[i].depth = log[i - 3].depth
  /\ \E j \in Events("run") :
       /\ log[j].fn = logFx
       /\ IsHook(j - 1, "preEffect")
       /\ log[j].depth = log[j - 1].depth + 1
       /\ j < Len(log)
       /\ IsHook(j + 1, "postEffect")

\* C15 (as claimed): when a traced action or effect has thrown and the
\* exception has left the outermost traced wrapper, at most one log group
\* more is open than when the application called dispatch, also when the
\* action that throws was dispatched by a traced effect.
C15_OneGroupLeftOpen ==
  (status = "threw" /\ exc = "Error") => depth <= log[1].depth + 1

\* C16 (as claimed): when an action returns an [action, argument] pair, the
\* post-action record has the Action line with the pair and no State line,
\* value or "unchanged", and no Effect line, whatever state the action was
\* invoked with, undefined included.
C16_ChainRecord ==
  \A i \in HookCalls("postAction") :
    LET out == log[i].out
        p == log[i].parsed
    IN "action" \in p.has =>
         /\ HasLine(out, LogLine(<<Str(<<"Action:">>), p.action>>))
         /\ \A k \in 1..Len(out) :
              out[k].op = "log" =>
                out[k].args[1].s[1] \notin {"State:", "Effect:"}

\* C17 (as claimed): with a state-change handler configured, a call of
\* interceptedDispatch with a target that produces a state returns: the
\* follow-up dispatch does not set off follow-ups without end, so the call
\* never ends by exhausting the call stack.
C17_FollowUpReturns ==
  (/\ Truthy(cfg.onStateChange)
   /\ status = "threw"
   /\ ProducesState(log[1].action)) => exc # "RangeError"

\* the hooks of trace.js are all configured
Tracing ==
  cfg.preAction /\ cfg.postAction /\ cfg.preEffect /\ cfg.postEffect

\* groups opened less groups closed by ops, from depth d, without the floor
\* of the console
RECURSIVE RawDepth(_, _)
RawDepth(d, ops) ==
  IF Len(ops) = 0 THEN d
  ELSE RawDepth(IF ops[1].op = "group" THEN d + 1
                ELSE IF ops[1].op = "groupEnd" THEN d - 1
                ELSE d,
                Tail(ops))

\* the call of the pre-effect hook that the post-effect hook call j answers
PreEffectOf(j) ==
  LastOf({k \in HookCalls("preEffect") :
            k < j /\ log[k].args = log[j].args})

\* C18: the log groups are balanced: no console.groupEnd() comes without an
\* open group, a traced action that has returned leaves the depth at what it
\* was when its pre-hook was called, and so does a traced effect once its
\* post-hook has run, also when the effect dispatched in between.
C18_GroupsBalanced ==
  (Tracing /\ Len(log) > 0) =>
    /\ \A k \in 0..Len(console) :
         RawDepth(log[1].depth, SubSeq(console, 1, k)) >= 0
    /\ \A i \in Events("return") :
         /\ IsHook(i - 3, "preAction")
         /\ log[i].depth = log[i - 3].depth
    /\ \A j \in HookCalls("postEffect") :
         /\ \E k \in HookCalls("preEffect") :
              k < j /\ log[k].args = log[j].args
         /\ log[j].depth - 1 = log[PreEffectOf(j)].depth

\* the traced effect dispFx has dispatched increment: increment's wrapper
\* returned one level deep, where its pre-hook was called, and after the
\* post-hook of the effect the depth is that of the start of the call
C18_Witness ==
  /\ Tracing
  /\ Len(log) > 0
  /\ depth = log[1].depth
  /\ \E i \in Events("return") :
       /\ log[i].fn.of = increment
       /\ log[i].depth = log[1].depth + 1
       /\ log[i - 3].depth = log[1].depth + 1
       /\ \E j \in HookCalls("postEffect") :
            /\ j > i
            /\ log[j].args[1] = getFunctionName(dispFx)
            /\ log[j].depth = log[1].depth + 1

\* new is old, or a wrapper made around old
OldOrWrapperOf(old, new) == new = old \/ (IsWrapper(new) /\ new.of = old)

\* the elements of new from index 1 on are those of old
SameRest(old, new) ==
  /\ IsArray(new)
  /\ Length(new) = Length(old)
  /\ \A k \in 1..(Length(old) - 1) : At(new, k) = At(old, k)

\* C19: interceptedDispatch changes nothing but the members it wraps: the
\* call it makes of the real dispatch has the argument it was given, and a
\* target with the state at index 0, the argument of an [action, argument]
\* pair, the argument of every effect tuple and the number and order of the
\* elements as they were; only index 0 of a pair and of an effect tuple may
\* hold a wrapper of what was there.
C19_OnlyWrappedMembersChange ==
  \A i \in Forwards :
    LET old == log[i].orig.action
        new == log[i].action
    IN /\ log[i].props = log[i].orig.props
       /\ IF IsFunction(old) THEN OldOrWrapperOf(old, new)
          ELSE IF ~IsArray(old) THEN new = old
          ELSE IF IsFunction(At(old, 0))
          THEN /\ SameRest(old, new)
               /\ OldOrWrapperOf(At(old, 0), At(new, 0))
          ELSE /\ IsArray(new)
               /\ Length(new) = Length(old)
               /\ At(new, 0) = At(old, 0)
               /\ \A j \in 1..(Length(old) - 1) :
                    /\ SameRest(At(old, j), At(new, j))
                    /\ OldOrWrapperOf(At(At(old, j), 0), At(At(new, j), 0))

\* [state, [logFx, a], [silentFx, b]] was dispatched with an argument: the
\* call forwarded has logFx wrapped and the state, both effect arguments
\* and the argument as they were
C19_Witness ==
  \E i \in Forwards :
    /\ log[i].orig.action =
         Arr(<<S2, Arr(<<logFx, P1>>), Arr(<<silentFx, P2>>)>>)
    /\ log[i].action # log[i].orig.action
    /\ IsWrapper(At(At(log[i].action, 1), 0))
    /\ At(At(log[i].action, 1), 1) = P1
    /\ At(log[i].action, 2) = Arr(<<silentFx, P2>>)
    /\ At(log[i].action, 0) = S2
    /\ log[i].props = P1

\* index of the last space of s, 0 when there is none
LastSpace(s) ==
  LET at == {k \in 1..Len(s) : s[k] = " "}
  IN IF at = {} THEN 0 ELSE LastOf(at)

\* the last space-separated token of s, a string
LastToken(s) == Str(SubSeq(s, LastSpace(s) + 1, Len(s)))

\* C20 (as claimed): getFunctionName(fn) is the last space-separated token
\* of the name of fn, "foo" for "foo" and for "bound foo" and the empty
\* string for an anonymous function, and this string is the first argument
\* the pre- and post-hooks are called with.
C20_HooksGetLastToken ==
  \A i \in Events("run") :
    /\ (i > 1 /\ log[i - 1].e = "hook"
              /\ log[i - 1].hook \in {"preAction", "preEffect"}) =>
         log[i - 1].args[1] = LastToken(log[i].fn.name)
    /\ (i < Len(log) /\ log[i + 1].e = "hook"
                     /\ log[i + 1].hook = "postAction") =>
         log[i + 1].args[1] = LastToken(log[i].fn.name)

====
